---- MODULE Spec2Model ----
(***************************************************************************)
(* Odometer Tracker (src/index.tsx): the App component's state, its mount  *)
(* effects, the upload handler with its FileReader and recognition         *)
(* continuations, Clear-All, the view toggles and the derived view.        *)
(*                                                                         *)
(* Strings the code inspects character by character (the recognition       *)
(* response) are sequences of one-character strings.  A value that may be  *)
(* undefined is a record [defined, chars].                                 *)
(***************************************************************************)
EXTENDS Integers, Sequences, FiniteSets, TLC

VARIABLES
    storage,          \* localStorage slot "odometer_readings"
    readings,         \* useState readings (last committed render)
    queued,           \* state update scheduled by the load effect, not yet rendered
    loading,          \* useState loading
    view,             \* useState view
    zeroReadings,     \* useState zeroReadings
    showClearConfirm, \* useState showClearConfirm
    errorMsg,         \* useState errorMsg
    displayed,        \* displayReadings of the last committed render
    fileInputValue,   \* fileInputRef.current.value
    apiKey,           \* process.env.API_KEY (fixed at build time)
    inflight,         \* ingestions whose callbacks are still to run, oldest first
    boot,             \* position of the mount sequence
    lastEvent         \* the handler, callback or effect that ran last

vars == <<storage, readings, queued, loading, view, zeroReadings, showClearConfirm,
          errorMsg, displayed, fileInputValue, apiKey, inflight, boot, lastEvent>>

----------------------------------------------------------------------------
(* Bounds *)

MaxReadings == 2      \* appends stop when the collection has this many readings
MaxStored == 2        \* longest collection found in storage at process start
MaxInflight == 2      \* cap on ingestions in flight (the code reaches 1)

----------------------------------------------------------------------------
(* Strings *)

Str(cs) == [defined |-> TRUE, chars |-> cs]
Undefined == [defined |-> FALSE, chars |-> <<>>]

\* JavaScript truthiness of a string-or-undefined value
Truthy(s) == s.defined /\ Len(s.chars) > 0

WhiteSpace == {" ", "\n", "\t"}
Digits == {"0", "1", "2", "3", "4", "5", "6", "7", "8", "9"}
DigitVal == [c \in Digits |->
    CASE c = "0" -> 0 [] c = "1" -> 1 [] c = "2" -> 2 [] c = "3" -> 3 [] c = "4" -> 4
      [] c = "5" -> 5 [] c = "6" -> 6 [] c = "7" -> 7 [] c = "8" -> 8 [] c = "9" -> 9]

RECURSIVE TrimStart(_)
TrimStart(cs) ==
    IF cs # <<>> /\ Head(cs) \in WhiteSpace THEN TrimStart(Tail(cs)) ELSE cs

RECURSIVE TrimEnd(_)
TrimEnd(cs) ==
    IF cs # <<>> /\ cs[Len(cs)] \in WhiteSpace
    THEN TrimEnd(SubSeq(cs, 1, Len(cs) - 1)) ELSE cs

\* String.prototype.trim
Trim(cs) == TrimEnd(TrimStart(cs))

\* response.text?.trim()
OptTrim(s) == IF s.defined THEN Str(Trim(s.chars)) ELSE Undefined

\* text || "-1"
OrDefault(s, d) == IF Truthy(s) THEN s.chars ELSE d

NaN == [nan |-> TRUE, n |-> 0]
Num(k) == [nan |-> FALSE, n |-> k]

\* the longest prefix of decimal digits
RECURSIVE DigitPrefix(_)
DigitPrefix(cs) ==
    IF cs # <<>> /\ Head(cs) \in Digits
    THEN <<Head(cs)>> \o DigitPrefix(Tail(cs)) ELSE <<>>

RECURSIVE DigitsValue(_)
DigitsValue(ds) ==
    IF ds = <<>> THEN 0
    ELSE 10 * DigitsValue(SubSeq(ds, 1, Len(ds) - 1)) + DigitVal[ds[Len(ds)]]

RECURSIVE OctalValue(_)
OctalValue(ds) ==
    IF ds = <<>> THEN 0
    ELSE 8 * OctalValue(SubSeq(ds, 1, Len(ds) - 1)) + DigitVal[ds[Len(ds)]]

\* a parse without the radix on an engine that reads a leading 0 as octal
parseIntNoRadix(cs) ==
    LET s == TrimStart(cs)
        neg == s # <<>> /\ Head(s) = "-"
        signed == s # <<>> /\ Head(s) \in {"-", "+"}
        body == IF signed THEN Tail(s) ELSE s
        ds == DigitPrefix(body)
        octal == Len(ds) > 1 /\ Head(ds) = "0" /\ \A k \in 1..Len(ds) : DigitVal[ds[k]] < 8
        magnitude == IF octal THEN OctalValue(ds) ELSE DigitsValue(ds)
    IN  IF ds = <<>> THEN NaN
        ELSE Num(IF neg THEN 0 - magnitude ELSE magnitude)

\* parseInt(string, 10): skip leading white space, read an optional sign, then
\* the longest run of digits; what follows the digits is ignored; no digit
\* gives NaN.
parseInt(cs) ==
    LET s == TrimStart(cs)
        neg == s # <<>> /\ Head(s) = "-"
        signed == s # <<>> /\ Head(s) \in {"-", "+"}
        body == IF signed THEN Tail(s) ELSE s
        ds == DigitPrefix(body)
    IN  IF ds = <<>> THEN NaN
        ELSE Num(IF neg THEN 0 - DigitsValue(ds) ELSE DigitsValue(ds))

isNaN(x) == x.nan

----------------------------------------------------------------------------
(* Dates.  A date string is the pair of the local time it spells and its     *)
(* zone offset; two different strings may name the same instant.           *)

DateStr(local, offset) == [local |-> local, offset |-> offset]

\* new Date(isoString).getTime()
getTime(d) == d.local - d.offset

\* new Date(now).toISOString(): always spelled in UTC
toISOString(now) == DateStr(now, 0)

----------------------------------------------------------------------------
(* Readings and their serialized form *)

Reading(id, value, date) == [id |-> id, value |-> value, date |-> date]

Absent == [kind |-> "absent", body |-> <<>>]          \* getItem gives null
EmptyText == [kind |-> "empty", body |-> <<>>]        \* the slot holds ""
Garbage == [kind |-> "garbage", body |-> <<>>]        \* text that is not JSON
JsonNull == [kind |-> "null", body |-> <<>>]          \* the text null
JsonNumber == [kind |-> "number", body |-> <<>>]      \* the text of a number
JsonObject == [kind |-> "object", body |-> <<>>]      \* the text {}

\* JSON.stringify(readings): one member list per reading, in array order
JSONstringify(rs) ==
    [kind |-> "array",
     body |-> [i \in 1..Len(rs) |-> <<rs[i].id, rs[i].value, rs[i].date>>]]

\* JSON.parse(text): throws on text that is not JSON, otherwise the value
JSONparse(text) ==
    CASE text.kind = "array" ->
            [ok |-> TRUE, type |-> "array",
             items |-> [i \in 1..Len(text.body) |->
                          Reading(text.body[i][1], text.body[i][2], text.body[i][3])]]
      [] text.kind \in {"null", "number", "object"} ->
            [ok |-> TRUE, type |-> text.kind, items |-> <<>>]
      [] OTHER -> [ok |-> FALSE, type |-> "error", items |-> <<>>]

\* if (stored): null and "" are falsy
StoredTruthy(text) == text.kind \notin {"absent", "empty"}

NoUpdate == [ok |-> FALSE, type |-> "none", items |-> <<>>]

----------------------------------------------------------------------------
(* The derived view *)

\* a comparator on the spelled local time instead of the instant
compareDateSpelling(a, b) == a.date.local - b.date.local

\* the comparator of the sort
compareDate(a, b) == getTime(a.date) - getTime(b.date)

\* r placed after every element that does not compare greater than it
RECURSIVE InsertSorted(_, _)
InsertSorted(s, r) ==
    IF s = <<>> THEN <<r>>
    ELSE IF compareDate(Head(s), r) <= 0
         THEN <<Head(s)>> \o InsertSorted(Tail(s), r)
         ELSE <<r>> \o s

\* Array.prototype.sort is stable: elements are inserted in array order
RECURSIVE SortFrom(_, _)
SortFrom(acc, rest) ==
    IF rest = <<>> THEN acc ELSE SortFrom(InsertSorted(acc, Head(rest)), Tail(rest))

sortedReadings(rs) == SortFrom(<<>>, rs)

\* the first reading of the collection as kept, not of the sorted one
initialReadingUnsorted(rs) ==
    IF Len(rs) > 0 THEN rs[1].value ELSE 0

initialReading(rs) ==
    IF Len(sortedReadings(rs)) > 0 THEN sortedReadings(rs)[1].value ELSE 0

displayReadings(rs, zero) ==
    LET sorted == sortedReadings(rs)
    IN  [i \in 1..Len(sorted) |->
            [id |-> sorted[i].id, value |-> sorted[i].value, date |-> sorted[i].date,
             displayValue |-> IF zero THEN sorted[i].value - initialReading(rs)
                              ELSE sorted[i].value]]

----------------------------------------------------------------------------
(* Inputs *)

\* texts the recognition service may answer with; Undefined is a response
\* without text
Texts ==
    { Str(<<"1", "2", "3", "4", "5", "6">>),
      Str(<<"-", "1">>),
      Str(<<>>),
      Str(<<"1", "2", "a", "4", "5", "6">>),
      Str(<<"0", "4", "5", "2", "1", "3">>),
      Str(<<" ", "0", "4", "5", "2", "1", "3", "\n">>),
      Str(<<"a", "b", "c">>),
      Str(<<"-", "5">>),
      Str(<<"1", "2", "3", "4", "5", "6", "7">>),
      Undefined }

\* process.env.API_KEY as the build defines it: absent, empty or a key
ApiKeys == {Undefined, Str(<<>>), Str(<<"k">>)}

Files == {"a.jpg", "b.jpg"}
NoFile == ""

\* tokens generateId may return and instants the clock may show
Ids == {"id1", "id2"}
Times == {1, 2}

\* readings a previous run may have left in storage; the second and the
\* third name the same instant in different spellings
StoredReadings ==
    { Reading("s1", 300, DateStr(1, 0)),
      Reading("s2", 100, DateStr(2, 0)),
      Reading("s3", 200, DateStr(3, 1)) }

RECURSIVE SeqsUpTo(_, _)
SeqsUpTo(S, n) ==
    IF n = 0 THEN {<<>>}
    ELSE LET shorter == SeqsUpTo(S, n - 1)
         IN  shorter \cup {Append(q, x) : q \in shorter, x \in S}

InitialSlots ==
    {Absent, EmptyText, Garbage, JsonNull, JsonNumber, JsonObject}
        \cup {JSONstringify(c) : c \in SeqsUpTo(StoredReadings, MaxStored)}

----------------------------------------------------------------------------
(* Messages *)

Null == "null"
ConfigMsg == "Configuration Error: API_KEY is missing. Please check your environment variables."
UnreadableMsg == "Could not read odometer. Please try a clearer photo."
AIErrorMsg == "Error processing image with AI."
FileReadMsg == "Error reading file."

----------------------------------------------------------------------------
(* localStorage *)

getItem(store) == store
setItem(store, text) == text
removeItem(store) == Absent

----------------------------------------------------------------------------
(* Mount: first render, then the two effects in order, then the render of   *)
(* the update the load effect scheduled                                    *)

Init ==
    /\ storage \in InitialSlots
    /\ readings = <<>>
    /\ queued = NoUpdate
    /\ loading = FALSE
    /\ view = "table"
    /\ zeroReadings = FALSE
    /\ showClearConfirm = FALSE
    /\ errorMsg = Null
    /\ displayed = displayReadings(<<>>, FALSE)
    /\ fileInputValue = NoFile
    /\ apiKey \in ApiKeys
    /\ inflight = <<>>
    /\ boot = "mounted"
    /\ lastEvent = "render"

\* the update setReadings(JSON.parse(stored)) schedules, if any
loadedUpdate(stored) ==
    IF StoredTruthy(stored)
    THEN IF JSONparse(stored).ok THEN JSONparse(stored) ELSE NoUpdate
    ELSE NoUpdate

LoadEffect ==
    /\ boot = "mounted"
    /\ queued' = loadedUpdate(getItem(storage))
    /\ boot' = "loaded"
    /\ lastEvent' = "loadEffect"
    /\ UNCHANGED <<storage, readings, loading, view, zeroReadings, showClearConfirm,
                   errorMsg, displayed, fileInputValue, apiKey, inflight>>

\* a save effect that keeps writing the readings of the first render
saveEffectStale(store, rs) == setItem(store, JSONstringify(<<>>))

\* a save effect that does not run
saveEffectSkipped(store, rs) == store

\* the save effect: what it writes for the readings of the render it belongs to
saveEffect(store, rs) == setItem(store, JSONstringify(rs))

\* the save effect of the first render, which saw the initial empty state
MountSaveEffect ==
    /\ boot = "loaded"
    /\ storage' = saveEffect(storage, readings)
    /\ boot' = IF queued.ok THEN "saved" ELSE "ready"
    /\ lastEvent' = "saveEffect"
    /\ UNCHANGED <<readings, queued, loading, view, zeroReadings, showClearConfirm,
                   errorMsg, displayed, fileInputValue, apiKey, inflight>>

\* [...readings] throws on a value that is not iterable
Iterable(value) == value.type = "array"

\* the render of the loaded state and, when it commits, its save effect
Rerender ==
    /\ boot = "saved"
    /\ queued' = NoUpdate
    /\ lastEvent' = "rerender"
    /\ IF Iterable(queued)
       THEN /\ readings' = queued.items
            /\ displayed' = displayReadings(queued.items, zeroReadings)
            /\ storage' = saveEffect(storage, queued.items)
            /\ boot' = "ready"
       ELSE /\ boot' = "crashed"
            /\ UNCHANGED <<readings, displayed, storage>>
    /\ UNCHANGED <<loading, view, zeroReadings, showClearConfirm, errorMsg,
                   fileInputValue, apiKey, inflight>>

----------------------------------------------------------------------------
(* Ingestion *)

\* an ingestion in flight: where its callbacks stand, the response text once
\* the call has resolved, and whether a Clear-All ran since it was dispatched
Ingestion(stage, text, clearedSince) ==
    [stage |-> stage, text |-> text, clearedSince |-> clearedSince]

RemoveAt(q, i) == SubSeq(q, 1, i - 1) \o SubSeq(q, i + 1, Len(q))

\* a button that is never disabled
addButtonAlwaysEnabled(isLoading) == TRUE

\* the "Add a Reading" button: disabled={loading}
addButtonEnabled(isLoading) == ~isLoading

\* a check that only notices an absent key
missingKeyOnlyUndefined(key) == ~key.defined

\* if (!apiKey)
missingApiKey(key) == ~Truthy(key)

\* a start that leaves the earlier message on screen
keptMessage(prev) == prev

\* setErrorMsg(null)
clearedMessage(prev) == Null

\* the change event with a file chosen.  The handler runs to its end inside
\* the event, so its state updates are rendered together.
handleFileUpload(file, readThrows) ==
    /\ boot = "ready"
    /\ addButtonEnabled(loading)
    /\ file # fileInputValue
    /\ Len(readings) < MaxReadings
    /\ Len(inflight) < MaxInflight
    /\ lastEvent' = "upload"
    /\ IF missingApiKey(apiKey)
       THEN /\ errorMsg' = ConfigMsg
            /\ loading' = FALSE
            /\ fileInputValue' = NoFile
            /\ UNCHANGED inflight
       ELSE IF readThrows
       THEN /\ errorMsg' = FileReadMsg
            /\ loading' = FALSE
            /\ fileInputValue' = file
            /\ UNCHANGED inflight
       ELSE /\ errorMsg' = clearedMessage(errorMsg)
            /\ loading' = TRUE
            /\ fileInputValue' = file
            /\ inflight' = Append(inflight, Ingestion("reading", Undefined, FALSE))
    /\ UNCHANGED <<storage, readings, queued, view, zeroReadings, showClearConfirm,
                   displayed, apiKey, boot>>

\* the change event with no file chosen (the selection was emptied)
handleFileUploadNoFile ==
    /\ boot = "ready"
    /\ addButtonEnabled(loading)
    /\ fileInputValue # NoFile
    /\ fileInputValue' = NoFile
    /\ lastEvent' = "noFile"
    /\ UNCHANGED <<storage, readings, queued, loading, view, zeroReadings,
                   showClearConfirm, errorMsg, displayed, apiKey, inflight, boot>>

\* reader.onload up to the await: the recognition call is issued
FileReaderLoad(i) ==
    /\ boot = "ready"
    /\ inflight[i].stage = "reading"
    /\ inflight' = [inflight EXCEPT ![i].stage = "recognizing"]
    /\ lastEvent' = "readerLoad"
    /\ UNCHANGED <<storage, readings, queued, loading, view, zeroReadings,
                   showClearConfirm, errorMsg, displayed, fileInputValue, apiKey, boot>>

\* the reader reports an error: no handler is registered for it
FileReaderError(i) ==
    /\ boot = "ready"
    /\ inflight[i].stage = "reading"
    /\ inflight' = RemoveAt(inflight, i)
    /\ lastEvent' = "readerError"
    /\ UNCHANGED <<storage, readings, queued, loading, view, zeroReadings,
                   showClearConfirm, errorMsg, displayed, fileInputValue, apiKey, boot>>

\* generateContent resolves with a response
GenerateContentResolve(i, text) ==
    /\ boot = "ready"
    /\ inflight[i].stage = "recognizing"
    /\ inflight' = [inflight EXCEPT ![i].stage = "resolved", ![i].text = text]
    /\ lastEvent' = "resolve"
    /\ UNCHANGED <<storage, readings, queued, loading, view, zeroReadings,
                   showClearConfirm, errorMsg, displayed, fileInputValue, apiKey, boot>>

\* generateContent rejects
GenerateContentReject(i) ==
    /\ boot = "ready"
    /\ inflight[i].stage = "recognizing"
    /\ inflight' = [inflight EXCEPT ![i].stage = "rejected"]
    /\ lastEvent' = "reject"
    /\ UNCHANGED <<storage, readings, queued, loading, view, zeroReadings,
                   showClearConfirm, errorMsg, displayed, fileInputValue, apiKey, boot>>

\* const text = response.text?.trim(); const numberValue = parseInt(text || "-1", 10)
numberValue(responseText) == parseInt(OrDefault(OptTrim(responseText), <<"-", "1">>))

\* the condition that sends the response to the error branch
unreadable(responseText) ==
    \/ ~Truthy(OptTrim(responseText))
    \/ (~isNaN(numberValue(responseText)) /\ numberValue(responseText).n = -1)
    \/ isNaN(numberValue(responseText))

\* an append onto the readings the handler captured at mount
appendReadingStale(prev, newReading) == <<newReading>>

\* setReadings((prev) => [...prev, newReading])
appendReading(prev, newReading) == Append(prev, newReading)

\* the rest of reader.onload after the await: validation, append or message,
\* and the finally block; the render and the save effect follow
onloadContinuation(i, id, now) ==
    /\ boot = "ready"
    /\ inflight[i].stage \in {"resolved", "rejected"}
    /\ inflight' = RemoveAt(inflight, i)
    /\ lastEvent' = IF inflight[i].clearedSince THEN "lateResponse" ELSE "response"
    /\ IF inflight[i].stage = "rejected"
       THEN /\ errorMsg' = AIErrorMsg
            /\ UNCHANGED <<readings, displayed, storage>>
       ELSE IF unreadable(inflight[i].text)
       THEN /\ errorMsg' = UnreadableMsg
            /\ UNCHANGED <<readings, displayed, storage>>
       ELSE /\ readings' = appendReading(readings,
                              Reading(id, numberValue(inflight[i].text).n, toISOString(now)))
            /\ displayed' = displayReadings(readings', zeroReadings)
            /\ storage' = saveEffect(storage, readings')
            /\ UNCHANGED errorMsg
    /\ loading' = FALSE
    /\ fileInputValue' = NoFile
    /\ UNCHANGED <<queued, view, zeroReadings, showClearConfirm, apiKey, boot>>

----------------------------------------------------------------------------
(* Commands *)

setView(v) ==
    /\ boot = "ready"
    /\ view' = v
    /\ lastEvent' = "setView"
    /\ UNCHANGED <<storage, readings, queued, loading, zeroReadings, showClearConfirm,
                   errorMsg, displayed, fileInputValue, apiKey, inflight, boot>>

\* a toggle whose render sorts the readings array itself instead of a copy
toggleZeroReadingsSortInPlace ==
    /\ boot = "ready"
    /\ zeroReadings' = ~zeroReadings
    /\ readings' = sortedReadings(readings)
    /\ displayed' = displayReadings(readings', zeroReadings')
    /\ lastEvent' = "toggleZero"
    /\ UNCHANGED <<storage, queued, loading, view, showClearConfirm,
                   errorMsg, fileInputValue, apiKey, inflight, boot>>

\* setZeroReadings(!zeroReadings), and the render that recomputes the view
toggleZeroReadings ==
    /\ boot = "ready"
    /\ zeroReadings' = ~zeroReadings
    /\ displayed' = displayReadings(readings, zeroReadings')
    /\ lastEvent' = "toggleZero"
    /\ UNCHANGED <<storage, readings, queued, loading, view, showClearConfirm,
                   errorMsg, fileInputValue, apiKey, inflight, boot>>

openClearConfirm ==
    /\ boot = "ready"
    /\ showClearConfirm' = TRUE
    /\ lastEvent' = "openClear"
    /\ UNCHANGED <<storage, readings, queued, loading, view, zeroReadings,
                   errorMsg, displayed, fileInputValue, apiKey, inflight, boot>>

cancelClear ==
    /\ boot = "ready"
    /\ showClearConfirm
    /\ showClearConfirm' = FALSE
    /\ lastEvent' = "cancelClear"
    /\ UNCHANGED <<storage, readings, queued, loading, view, zeroReadings,
                   errorMsg, displayed, fileInputValue, apiKey, inflight, boot>>

\* a clear that keeps the readings
clearedReadingsKept(prev) == prev

\* setReadings([])
clearedReadings(prev) == <<>>

\* "Yes, Clear": the handler removes the slot; the render of the new (empty)
\* readings array then runs the save effect
clearAllReadings ==
    /\ boot = "ready"
    /\ showClearConfirm
    /\ readings' = clearedReadings(readings)
    /\ showClearConfirm' = FALSE
    /\ displayed' = displayReadings(readings', zeroReadings)
    /\ storage' = saveEffect(removeItem(storage), readings')
    /\ inflight' = [i \in 1..Len(inflight) |-> [inflight[i] EXCEPT !.clearedSince = TRUE]]
    /\ lastEvent' = "clearAll"
    /\ UNCHANGED <<queued, loading, view, zeroReadings, errorMsg, fileInputValue,
                   apiKey, boot>>

----------------------------------------------------------------------------

Next ==
    \/ LoadEffect
    \/ MountSaveEffect
    \/ Rerender
    \/ \E file \in Files, readThrows \in BOOLEAN : handleFileUpload(file, readThrows)
    \/ handleFileUploadNoFile
    \/ \E i \in 1..Len(inflight) : FileReaderLoad(i)
    \/ \E i \in 1..Len(inflight) : FileReaderError(i)
    \/ \E i \in 1..Len(inflight), text \in Texts : GenerateContentResolve(i, text)
    \/ \E i \in 1..Len(inflight) : GenerateContentReject(i)
    \/ \E i \in 1..Len(inflight), id \in Ids, now \in Times : onloadContinuation(i, id, now)
    \/ \E v \in {"table", "chart"} : setView(v)
    \/ toggleZeroReadings
    \/ openClearConfirm
    \/ cancelClear
    \/ clearAllReadings

Spec == Init /\ [][Next]_vars

----------------------------------------------------------------------------
(* Properties *)

\* a step in which the continuation of ingestion i ran
ContinuationOf(i) ==
    /\ inflight[i].stage \in {"resolved", "rejected"}
    /\ lastEvent' \in {"response", "lateResponse"}
    /\ inflight' = RemoveAt(inflight, i)

\* a decimal integer literal: an optional minus sign, then digits only
IsBase10Integer(cs) ==
    LET body == IF cs # <<>> /\ Head(cs) = "-" THEN Tail(cs) ELSE cs
    IN  body # <<>> /\ \A k \in 1..Len(body) : body[k] \in Digits

IntegerOf(cs) ==
    IF Head(cs) = "-" THEN 0 - DigitsValue(Tail(cs)) ELSE DigitsValue(cs)

\* what the response text is once trimmed ("" for a response without text)
Trimmed(text) == IF text.defined THEN Trim(text.chars) ELSE <<>>

\* C1: the continuation of a resolved recognition call appends a reading, with
\* the value the trimmed text denotes, exactly when the trimmed text is a
\* base-10 integer other than -1; otherwise it shows the unreadable-image
\* message and appends nothing.
ResponseValidation ==
    [][\A i \in 1..Len(inflight) :
          (ContinuationOf(i) /\ inflight[i].stage = "resolved") =>
              LET t == Trimmed(inflight[i].text)
              IN  IF IsBase10Integer(t) /\ IntegerOf(t) # -1
                  THEN /\ Len(readings') = Len(readings) + 1
                       /\ readings'[Len(readings')].value = IntegerOf(t)
                  ELSE /\ readings' = readings
                       /\ errorMsg' = UnreadableMsg]_vars

\* C2: when a confirmed Clear-All has been processed, the collection is empty
\* and the slot is absent from storage.
ClearAllRemovesSlot ==
    lastEvent = "clearAll" => (Len(readings) = 0 /\ storage = Absent)

\* C3: once no callback of an ingestion remains to run, the pipeline is back
\* in Idle (loading is false).
IngestionReturnsToIdle ==
    (boot = "ready" /\ Len(inflight) = 0) => loading = FALSE

\* C4: at most one ingestion is in flight, it is in flight only while loading
\* is true, and a step appends at most one reading, consuming the response it
\* came from.
SingleFlight ==
    /\ [](Len(inflight) <= 1 /\ (Len(inflight) = 1 => loading))
    /\ [][boot = "ready" =>
            /\ Len(readings') <= Len(readings) + 1
            /\ Len(readings') > Len(readings) =>
                  /\ Len(inflight) = 1
                  /\ inflight[1].stage = "resolved"
                  /\ Len(inflight') = 0]_vars

SingleFlightWitness ==
    /\ loading
    /\ Len(inflight) = 1
    /\ inflight[1].stage = "recognizing"
    /\ lastEvent = "openClear"

\* C5 as stated: after the response of an ingestion dispatched before a
\* confirmed Clear-All has been processed, the collection does not hold its
\* reading (the collection the clear emptied is still empty).
OrderOfDispatch ==
    lastEvent = "lateResponse" => Len(readings) = 0

\* C5 as amended: mutations take effect in the order the handlers and
\* callbacks that issue them run.  A confirmed Clear-All leaves the collection
\* empty; a response processed after a Clear-All that was dispatched during its
\* flight leaves exactly its own reading when it succeeds, and nothing when it
\* fails.
OrderOfApplication ==
    /\ lastEvent = "clearAll" => Len(readings) = 0
    /\ lastEvent = "lateResponse" =>
          \/ (errorMsg = Null /\ Len(readings) = 1)
          \/ (errorMsg \in {UnreadableMsg, AIErrorMsg} /\ Len(readings) = 0)

OrderOfApplicationWitness ==
    lastEvent = "lateResponse" /\ errorMsg = Null /\ Len(readings) = 1

\* C6: an upload without a credential shows the configuration message, leaves
\* loading false, starts no file read or recognition call and changes neither
\* the collection nor the slot.
MissingCredential ==
    [][(lastEvent' = "upload" /\ ~Truthy(apiKey)) =>
          /\ errorMsg' = ConfigMsg
          /\ loading' = FALSE
          /\ Len(inflight') = 0
          /\ readings' = readings
          /\ storage' = storage]_vars

MissingCredentialWitness ==
    lastEvent = "upload" /\ ~Truthy(apiKey) /\ errorMsg = ConfigMsg /\ ~loading

\* C7: after a file read that failed, in the handler or by the reader's error
\* event, the file-read message is shown and no recognition call is in flight.
FileReadFailureSurfaced ==
    (\/ lastEvent = "readerError"
     \/ (lastEvent = "upload" /\ Truthy(apiKey) /\ ~loading)) =>
        (errorMsg = FileReadMsg /\ Len(inflight) = 0)

\* the step that ends the mount sequence
StartupEnds == boot \notin {"ready", "crashed"} /\ boot' \in {"ready", "crashed"}

\* C8: when the slot gave no array (nothing loaded, or a value that is not an
\* array), the mount sequence ends running, with an empty collection.
FailSoftLoad ==
    [][(StartupEnds /\ ~(queued.ok /\ queued.type = "array")) =>
          (boot' = "ready" /\ Len(readings') = 0)]_vars

\* the readings a serialized collection spells
ReadingsIn(text) ==
    [i \in 1..Len(text.body) |->
        [id |-> text.body[i][1], value |-> text.body[i][2], date |-> text.body[i][3]]]

\* C9: a serialized collection found at start is what the load effect
\* schedules, the mount-time save keeps that update, and the render that ends
\* the mount sequence leaves exactly those readings in memory and in the slot.
PersistenceIdempotent ==
    [][/\ (boot = "mounted" /\ storage.kind = "array") =>
              (queued'.type = "array" /\ queued'.items = ReadingsIn(storage))
       /\ (boot = "loaded" /\ queued.type = "array") =>
              (queued' = queued /\ boot' = "saved")
       /\ (boot = "saved" /\ queued.type = "array") =>
              /\ boot' = "ready"
              /\ readings' = queued.items
              /\ storage'.kind = "array"
              /\ ReadingsIn(storage') = queued.items]_vars

PersistenceIdempotentWitness ==
    /\ boot = "ready"
    /\ lastEvent = "rerender"
    /\ Len(readings) = 2
    /\ storage.kind = "array"
    /\ ReadingsIn(storage) = readings

Injections(n) == {p \in [1..n -> 1..n] : \A i, j \in 1..n : p[i] = p[j] => i = j}

\* C10: in absolute mode the view is the collection rearranged by ascending
\* instant, readings of the same instant in collection order, each row with
\* displayValue equal to value.
ProjectionOrder ==
    ~zeroReadings =>
        /\ Len(displayed) = Len(readings)
        /\ \E p \in Injections(Len(readings)) :
              /\ \A i \in 1..Len(readings) :
                    /\ displayed[i].id = readings[p[i]].id
                    /\ displayed[i].value = readings[p[i]].value
                    /\ displayed[i].date = readings[p[i]].date
                    /\ displayed[i].displayValue = readings[p[i]].value
              /\ \A i, j \in 1..Len(readings) :
                    i < j =>
                        \/ getTime(displayed[i].date) < getTime(displayed[j].date)
                        \/ /\ getTime(displayed[i].date) = getTime(displayed[j].date)
                           /\ p[i] < p[j]

ProjectionOrderWitness ==
    /\ ~zeroReadings
    /\ Len(readings) = 2
    /\ getTime(readings[1].date) > getTime(readings[2].date)
    /\ displayed[1].id = readings[2].id
    /\ getTime(displayed[1].date) < getTime(displayed[2].date)

\* the value of the earliest reading: the least instant, and among readings
\* of that instant the first of the collection
EarliestValue(rs) ==
    LET k == CHOOSE k \in 1..Len(rs) :
                 \A j \in 1..Len(rs) :
                     \/ getTime(rs[k].date) < getTime(rs[j].date)
                     \/ (getTime(rs[k].date) = getTime(rs[j].date) /\ k <= j)
    IN  rs[k].value

\* C11: in zero mode, for a non-empty collection, the first row of the view
\* shows 0 and every row shows its value minus the value of the earliest
\* reading by date.
ZeroBased ==
    (zeroReadings /\ Len(readings) > 0) =>
        /\ Len(displayed) = Len(readings)
        /\ displayed[1].displayValue = 0
        /\ \A i \in 1..Len(displayed) :
              displayed[i].displayValue = displayed[i].value - EarliestValue(readings)

ZeroBasedWitness ==
    /\ zeroReadings
    /\ Len(readings) = 2
    /\ getTime(readings[1].date) > getTime(readings[2].date)
    /\ readings[1].value # readings[2].value
    /\ displayed[1].displayValue = 0
    /\ displayed[2].displayValue # 0

\* C12: every reading of the collection has a value between 0 and 999999
\* (the readings found in storage do, so this speaks of the appended ones).
ValueInRange ==
    \A i \in 1..Len(readings) : readings[i].value >= 0 /\ readings[i].value <= 999999

Text045213 == Str(<<"0", "4", "5", "2", "1", "3">>)

\* C13: the response "045213" processed on an empty collection leaves exactly
\* one reading, of value 45213; a collection of that one reading is shown as
\* 45213 in absolute mode and as 0 once zero mode is on.
EndToEnd ==
    [][/\ \A i \in 1..Len(inflight) :
            (ContinuationOf(i) /\ inflight[i].stage = "resolved"
                /\ inflight[i].text = Text045213 /\ Len(readings) = 0) =>
                /\ Len(readings') = 1
                /\ readings'[1].value = 45213
                /\ Len(displayed') = 1
                /\ displayed'[1].displayValue = IF zeroReadings' THEN 0 ELSE 45213
       /\ (lastEvent' = "toggleZero" /\ Len(readings) = 1 /\ readings[1].value = 45213) =>
                /\ readings' = readings
                /\ Len(displayed') = 1
                /\ displayed'[1].displayValue = IF zeroReadings' THEN 0 ELSE 45213]_vars

EndToEndWitness ==
    /\ lastEvent = "toggleZero"
    /\ zeroReadings
    /\ Len(readings) = 1
    /\ readings[1].value = 45213
    /\ displayed[1].value = 45213
    /\ displayed[1].displayValue = 0

\* C14: whenever a path of the upload handler has set loading back to false
\* (the handler returned without starting a read, or the continuation of the
\* response ran), the value of the file input is empty.
FileInputCleared ==
    (\/ (lastEvent = "upload" /\ ~loading)
     \/ lastEvent \in {"response", "lateResponse"}) =>
        fileInputValue = NoFile

\* C15: in every state of the running app (the mount sequence over, every
\* handler with its render and effects done) the slot holds the serialization
\* of exactly the collection in memory.
PersistenceFollows ==
    boot = "ready" => (storage.kind = "array" /\ ReadingsIn(storage) = readings)

PersistenceFollowsWitness ==
    /\ boot = "ready"
    /\ lastEvent = "response"
    /\ Len(readings) = 2
    /\ storage.kind = "array"
    /\ Len(storage.body) = 2
    /\ ReadingsIn(storage) = readings

\* C16: once the app runs, a step leaves the collection as it is, or is the
\* continuation of a response appending one reading after the unchanged
\* existing ones, or is a confirmed Clear-All emptying it.
OnlyAppendOrClear ==
    [][boot = "ready" =>
          \/ readings' = readings
          \/ /\ lastEvent' \in {"response", "lateResponse"}
             /\ Len(readings') = Len(readings) + 1
             /\ SubSeq(readings', 1, Len(readings)) = readings
          \/ /\ lastEvent' = "clearAll"
             /\ Len(readings') = 0]_vars

OnlyAppendOrClearWitness ==
    /\ lastEvent = "response"
    /\ Len(readings) = 2
    /\ readings[1] \in StoredReadings
    /\ readings[2] \notin StoredReadings

\* C17: setting the view, toggling zero mode, opening the Clear-All dialog and
\* cancelling it leave the collection and the slot as they are, and of the
\* flags change only their own.
ReadOnlyCommands ==
    [][/\ lastEvent' \in {"setView", "toggleZero", "openClear", "cancelClear"} =>
            /\ readings' = readings
            /\ storage' = storage
            /\ loading' = loading
            /\ errorMsg' = errorMsg
            /\ inflight' = inflight
       /\ lastEvent' = "setView" =>
            (zeroReadings' = zeroReadings /\ showClearConfirm' = showClearConfirm)
       /\ lastEvent' = "toggleZero" =>
            /\ zeroReadings' = ~zeroReadings
            /\ view' = view
            /\ showClearConfirm' = showClearConfirm
       /\ lastEvent' = "openClear" =>
            (showClearConfirm' /\ view' = view /\ zeroReadings' = zeroReadings)
       /\ lastEvent' = "cancelClear" =>
            (~showClearConfirm' /\ view' = view /\ zeroReadings' = zeroReadings)]_vars

ReadOnlyCommandsWitness ==
    /\ lastEvent = "toggleZero"
    /\ zeroReadings
    /\ view = "chart"
    /\ Len(readings) = 2
    /\ getTime(readings[1].date) > getTime(readings[2].date)
    /\ storage.kind = "array"
    /\ ReadingsIn(storage) = readings

\* C18: an ingestion that starts shows no message; back in Idle the message is
\* that of the attempt: the configuration message after a missing credential,
\* none after an append, the unreadable-image message after a response that
\* appended nothing; the two messages differ.
MostRecentError ==
    [][/\ ConfigMsg # UnreadableMsg
       /\ (lastEvent' = "upload" /\ loading') => errorMsg' = Null
       /\ (lastEvent' = "upload" /\ ~Truthy(apiKey)) =>
              (errorMsg' = ConfigMsg /\ ~loading')
       /\ \A i \in 1..Len(inflight) :
              (ContinuationOf(i) /\ inflight[i].stage = "resolved") =>
                  /\ ~loading'
                  /\ errorMsg' = IF Len(readings') > Len(readings)
                                 THEN Null ELSE UnreadableMsg]_vars

MostRecentErrorWitness ==
    /\ lastEvent = "response"
    /\ ~loading
    /\ errorMsg = UnreadableMsg
    /\ Len(readings) = 1
    /\ readings[1] \notin StoredReadings

====
